---- MODULE Spec2Model ----
(***************************************************************************)
(* A model of the SPV proof engine of bitbridge: the Merkle tree and its   *)
(* inclusion proofs, the proof generator, the proof cache and the proof    *)
(* service with its batch entry point.                                     *)
(*                                                                         *)
(* Byte strings are sequences of integers.  A transaction digest is the    *)
(* one-element sequence <<n>>, n >= 1; doubleSHA256 of a byte string is    *)
(* that string behind the marker 0, so that the hash of the concatenation  *)
(* of two digests is a prefix term 0 l r, readable in one way only: the    *)
(* double hash is collision-free on the values the model builds.           *)
(* A hex string is a pair <<kind, bytes>>: "lc" is what EncodeToString     *)
(* writes, "bad" is a string DecodeString rejects.                         *)
(***************************************************************************)
EXTENDS Integers, Sequences, FiniteSets, TLC

VARIABLES
    \* Merkle tree: input, tree built, proof generated, verdict, position
    txHashes, tree, proof, verified, mpc,
    \* Generator: transaction asked for, the provider's answers, result, position
    gTx, gRpc, gOut, gpc,
    \* Service: the clock, the cache's map
    now, proofs,
    \* BatchGenerateProofs: the requests, the caller's position and the number
    \* of tasks it has spawned, each task's position, the WaitGroup counter,
    \* the number of tokens in the semaphore channel, the two slot arrays, the
    \* combined error returned; and, to state the claims, the calls of
    \* GenerateProof made for each request and the order the tasks finished in
    requests, bmain, spawned, tpc, wg, sem, responses, errors, combinedError,
    calls, finished,
    \* the context passed to BatchGenerateProofs: "live" or "cancelled"
    ctx,
    \* concurrent ProofCache.Get: each reader's position, the use counter it
    \* has loaded, and the number of hits completed since the entry was set
    readerPc, readerReg, hits,
    \* WebSocketManager: the registered clients; per client the messages in
    \* its send channel, whether the channel is closed, the closes made of it,
    \* whether it is subscribed to the topic, the position of its readPump;
    \* and the panic raised, if any
    wsClients, wsSend, wsClosed, wsCloses, wsTopics, wsReadPump, wsPanic

mvars == <<txHashes, tree, proof, verified, mpc>>
gvars == <<gTx, gRpc, gOut, gpc>>
svars == <<now, proofs>>
bvars == <<requests, bmain, spawned, tpc, wg, sem, responses, errors, combinedError,
           calls, finished, ctx>>
rvars == <<readerPc, readerReg, hits>>
wvars == <<wsClients, wsSend, wsClosed, wsCloses, wsTopics, wsReadPump, wsPanic>>

vars == <<txHashes, tree, proof, verified, mpc, gTx, gRpc, gOut, gpc,
          now, proofs,
          requests, bmain, spawned, tpc, wg, sem, responses, errors, combinedError,
          calls, finished, ctx,
          readerPc, readerReg, hits,
          wsClients, wsSend, wsClosed, wsCloses, wsTopics, wsReadPump, wsPanic>>

(***************************************************************************)
(* Bounds                                                                  *)
(***************************************************************************)
NumDigests == 2
MaxLeaves == 4
\* Generator: the heights the provider reports, the size of a block
MaxHeight == 3
MaxBlockTxs == 2
\* Service: its configuration (the cache's size and lifetime in clock ticks,
\* the default confirmation minimum) and the range of its inputs
MaxCacheSize == 2
CacheExpiration == 2
MinConfirmations == 2
NumTx == 3
MaxRequired == 2
MaxTime == 3
MaxUseCount == 2
\* Batch: the number of requests of a batch, and the time it runs at
MaxBatch == 2
BatchTime == 1
\* the number of requests of a batch larger than the semaphore
WideBatch == 11
\* concurrent readers of the cache, and the hits they make on one entry
NumReaders == 2
MaxHits == 3
\* WebSocket clients, and the capacity of a client's send channel
NumClients == 2
SendBuffer == 1
\* the capacity of the semaphore channel of BatchGenerateProofs
SemLimit == 10

\* the sequences over S of length at most n
RECURSIVE SeqsUpTo(_, _)
SeqsUpTo(S, n) ==
    IF n = 0
    THEN {<<>>}
    ELSE LET shorter == SeqsUpTo(S, n - 1)
         IN  shorter \cup {Append(s, x) : s \in {t \in shorter : Len(t) = n - 1}, x \in S}

(***************************************************************************)
(* encoding/hex                                                            *)
(***************************************************************************)
EncodeToString(bytes) == <<"lc", bytes>>

\* a decoder that takes any string
DecodeStringLenient(s) == [err |-> FALSE, bytes |-> s[2]]

DecodeString(s) == [err |-> s[1] = "bad", bytes |-> s[2]]

Digests == {<<n>> : n \in 1..NumDigests}

BadHex == <<"bad", <<0>>>>

\* valid hex of another length than a digest's: the bytes of two digests
LongHex == EncodeToString(<<1, 1>>)

HexInputs == {EncodeToString(d) : d \in Digests} \cup {BadHex, LongHex}

(***************************************************************************)
(* Merkle tree.  The nodes of a tree live in a heap, a sequence of node    *)
(* records; a pointer is an index into it and Nil is the nil pointer.      *)
(***************************************************************************)
Nil == 0

doubleSHA256(data) == <<0>> \o data

LeafNode(hashBytes, i) ==
    [Hash |-> hashBytes, Left |-> Nil, Right |-> Nil, IsLeaf |-> TRUE, Index |-> i]

\* a partner for the last node of an odd level taken from the pair before
RightOfPrevious(nodes, i) == IF i + 1 <= Len(nodes) THEN nodes[i + 1] ELSE nodes[i - 1]

\* the right partner of nodes[i] (i counts from 1): the next node, or the
\* node itself when the level is odd and nodes[i] is its last node
RightOf(nodes, i) == IF i + 1 <= Len(nodes) THEN nodes[i + 1] ELSE nodes[i]

ParentNode(heap, left, right) ==
    [Hash   |-> doubleSHA256(heap[left].Hash \o heap[right].Hash),
     Left   |-> left, Right |-> right, IsLeaf |-> FALSE, Index |-> 0]

\* a reduction that applies a hashing round to a lone node too
RECURSIVE buildTreeHashLone(_, _)
buildTreeHashLone(heap, nodes) ==
    LET m == (Len(nodes) + 1) \div 2
        nextLevel == [j \in 1..m |->
            ParentNode(heap, nodes[2 * j - 1], RightOf(nodes, 2 * j - 1))]
    IN  IF m = 1
        THEN [Nodes |-> heap \o nextLevel, Root |-> Len(heap) + 1]
        ELSE buildTreeHashLone(heap \o nextLevel, [j \in 1..m |-> Len(heap) + j])

RECURSIVE buildTree(_, _)
buildTree(heap, nodes) ==
    IF Len(nodes) = 1
    THEN [Nodes |-> heap, Root |-> nodes[1]]
    ELSE LET m == (Len(nodes) + 1) \div 2
             nextLevel == [j \in 1..m |->
                 ParentNode(heap, nodes[2 * j - 1], RightOf(nodes, 2 * j - 1))]
         IN  buildTree(heap \o nextLevel, [j \in 1..m |-> Len(heap) + j])

NoTree == [err |-> "none", Root |-> Nil, Leaves |-> <<>>, Nodes |-> <<>>]

NewMerkleTree(hashes) ==
    IF Len(hashes) = 0
    THEN [NoTree EXCEPT !.err = "EmptyInput"]
    ELSE IF \E i \in 1..Len(hashes) : DecodeString(hashes[i]).err
    THEN [NoTree EXCEPT !.err = "InvalidDigest"]
    ELSE LET leaves == [i \in 1..Len(hashes) |->
                 LeafNode(DecodeString(hashes[i]).bytes, i - 1)]
             built == buildTree(leaves, [i \in 1..Len(hashes) |-> i])
         IN  [err |-> "", Root |-> built.Root,
              Leaves |-> [i \in 1..Len(hashes) |-> i], Nodes |-> built.Nodes]

RECURSIVE findParentRecursive(_, _, _)
findParentRecursive(mt, node, target) ==
    IF node = Nil \/ mt.Nodes[node].IsLeaf
    THEN Nil
    ELSE IF mt.Nodes[node].Left = target \/ mt.Nodes[node].Right = target
    THEN node
    ELSE LET parent == findParentRecursive(mt, mt.Nodes[node].Left, target)
         IN  IF parent # Nil
             THEN parent
             ELSE findParentRecursive(mt, mt.Nodes[node].Right, target)

findParent(mt, target) == findParentRecursive(mt, mt.Root, target)

\* a step that appends the hash of the left child whichever side it came from
SiblingStepLeft(mt, parent, current) ==
    IF mt.Nodes[parent].Left # Nil
    THEN <<EncodeToString(mt.Nodes[mt.Nodes[parent].Left].Hash)>>
    ELSE <<>>

\* the sibling hash the walk appends at `parent` when it came from `current`
SiblingStep(mt, parent, current) ==
    IF mt.Nodes[parent].Left = current
    THEN IF mt.Nodes[parent].Right # Nil
         THEN <<EncodeToString(mt.Nodes[mt.Nodes[parent].Right].Hash)>>
         ELSE <<>>
    ELSE IF mt.Nodes[parent].Left # Nil
         THEN <<EncodeToString(mt.Nodes[mt.Nodes[parent].Left].Hash)>>
         ELSE <<>>

RECURSIVE ProofPathFrom(_, _, _)
ProofPathFrom(mt, current, path) ==
    IF current = mt.Root
    THEN path
    ELSE LET parent == findParent(mt, current)
         IN  IF parent = Nil
             THEN path
             ELSE ProofPathFrom(mt, parent, path \o SiblingStep(mt, parent, current))

getProofPath(mt, target) == ProofPathFrom(mt, target, <<>>)

NoProof == [err |-> "none", TxHash |-> <<"lc", <<>>>>, MerkleRoot |-> <<"lc", <<>>>>,
            Proof |-> <<>>, Index |-> 0, TotalTxs |-> 0]

\* a range test that counts the leaves from 1
OutOfRangeFromOne(mt, txIndex) == txIndex <= 0 \/ txIndex >= Len(mt.Leaves)

\* the range test of GenerateProof
OutOfRange(mt, txIndex) == txIndex < 0 \/ txIndex >= Len(mt.Leaves)

\* MerkleTree.GenerateProof; txIndex counts from 0 as in the code
GenerateProof(mt, txIndex) ==
    IF OutOfRange(mt, txIndex)
    THEN [NoProof EXCEPT !.err = "IndexOutOfRange"]
    ELSE [err        |-> "",
          TxHash     |-> EncodeToString(mt.Nodes[mt.Leaves[txIndex + 1]].Hash),
          MerkleRoot |-> IF mt.Root # Nil
                         THEN EncodeToString(mt.Nodes[mt.Root].Hash)
                         ELSE <<"lc", <<>>>>,
          Proof      |-> IF mt.Root # Nil
                         THEN getProofPath(mt, mt.Leaves[txIndex + 1])
                         ELSE <<>>,
          Index      |-> txIndex,
          TotalTxs   |-> Len(mt.Leaves)]

\* one round of VerifyProof: the running hash is the left operand at an even
\* index and the right operand at an odd one
Combine(index, currentHash, proofHash) ==
    IF index % 2 = 0
    THEN doubleSHA256(currentHash \o proofHash)
    ELSE doubleSHA256(proofHash \o currentHash)

\* the loop of VerifyProof from sibling k on: the final hash, or <<>> with
\* bad = TRUE when a sibling is not hex
RECURSIVE VerifyLoop(_, _, _, _)
VerifyLoop(siblings, k, currentHash, index) ==
    IF k > Len(siblings)
    THEN [bad |-> FALSE, hash |-> currentHash]
    ELSE IF DecodeString(siblings[k]).err
    THEN [bad |-> TRUE, hash |-> <<>>]
    ELSE VerifyLoop(siblings, k + 1,
                    Combine(index, currentHash, DecodeString(siblings[k]).bytes),
                    index \div 2)

\* a verification that decodes and hashes but leaves out the comparison
VerifyProofUncompared(p) ==
    IF p.err # "" \/ Len(p.Proof) = 0
    THEN FALSE
    ELSE IF DecodeString(p.TxHash).err
    THEN FALSE
    ELSE IF DecodeString(p.MerkleRoot).err
    THEN FALSE
    ELSE ~VerifyLoop(p.Proof, 1, DecodeString(p.TxHash).bytes, p.Index).bad

\* VerifyProof; a proof record whose err is not "" stands for a nil pointer
VerifyProof(p) ==
    IF p.err # "" \/ Len(p.Proof) = 0
    THEN FALSE
    ELSE IF DecodeString(p.TxHash).err
    THEN FALSE
    ELSE IF DecodeString(p.MerkleRoot).err
    THEN FALSE
    ELSE LET run == VerifyLoop(p.Proof, 1, DecodeString(p.TxHash).bytes, p.Index)
         IN  IF run.bad
             THEN FALSE
             ELSE EncodeToString(run.hash) =
                  EncodeToString(DecodeString(p.MerkleRoot).bytes)

(***************************************************************************)
(* Generator.  The chain-data provider is the environment: one call of     *)
(* GenerateProof reads its answers from a record rpc,                      *)
(*   fail          the RPC that fails, or "none"                           *)
(*   Height        the height of the block holding the transaction, 0 when *)
(*                 the provider names no block (BlockHash == "")           *)
(*   Confirmations the confirmation count the provider reports             *)
(*   Tip           the height of the best block                            *)
(*   Txs           the block's transactions, in block order                *)
(*   HashOK/RootOK whether the header the provider returns hashes to the   *)
(*                 block hash asked for / carries the root of Txs          *)
(*   NumOut        the number of outputs of the transaction                *)
(***************************************************************************)
TxHashString(t) == EncodeToString(<<t>>)

BlockHashString(h) == EncodeToString(<<h>>)

OtherHashString == EncodeToString(<<>>)

\* the node's confirmation count of a transaction in the block at `height`
\* when the best block is at `tip`
ProviderConfirmations(tip, height) == tip - height + 1

RECURSIVE IndexFrom(_, _, _, _)
IndexFrom(txs, txHashStr, i, found) ==
    IF i > Len(txs)
    THEN found
    ELSE IndexFrom(txs, txHashStr, i + 1,
                   IF TxHashString(txs[i]) = txHashStr THEN i - 1 ELSE found)

\* the loop over block.Transactions: the position of the last match, or -1
TxIndexIn(txs, txHashStr) == IndexFrom(txs, txHashStr, 1, -1)

NoSPVProof ==
    [err |-> "none", BlockHeader |-> [Hash |-> OtherHashString, MerkleRoot |-> OtherHashString],
     MerkleProof |-> NoProof, Transaction |-> [TxHash |-> OtherHashString, NumOut |-> 0],
     BlockHeight |-> 0, Confirmations |-> 0, BlockHash |-> OtherHashString]

GenError(e) == [NoSPVProof EXCEPT !.err = e]

\* confirmations := bestBlock.Height - int64(txResult.Confirmations) + 1
ComputedConfirmations(rpc) == rpc.Tip - rpc.Confirmations + 1

\* BlockHeight: int32(bestBlock.Height - confirmations + 1)
ComputedBlockHeight(rpc) == rpc.Tip - ComputedConfirmations(rpc) + 1

GeneratorGenerateProof(txHashStr, rpc) ==
    IF DecodeString(txHashStr).err
    THEN GenError("invalid transaction hash")
    ELSE IF rpc.fail = "GetRawTransactionVerbose"
    THEN GenError("failed to get transaction")
    ELSE IF rpc.Height = 0
    THEN GenError("transaction not yet included in a block")
    ELSE IF rpc.fail = "GetBlockHeader"
    THEN GenError("failed to get block header")
    ELSE IF rpc.fail = "GetBlock"
    THEN GenError("failed to get block")
    ELSE LET hashes  == [i \in 1..Len(rpc.Txs) |-> TxHashString(rpc.Txs[i])]
             txIndex == TxIndexIn(rpc.Txs, txHashStr)
             mt      == NewMerkleTree(hashes)
             mp      == GenerateProof(mt, txIndex)
         IN  IF txIndex = -1
             THEN GenError("transaction not found in block")
             ELSE IF mt.err # ""
             THEN GenError("failed to build merkle tree")
             ELSE IF mp.err # ""
             THEN GenError("failed to generate merkle proof")
             ELSE IF rpc.fail = "GetBestBlockHash"
             THEN GenError("failed to get best block hash")
             ELSE IF rpc.fail = "GetBlockVerbose"
             THEN GenError("failed to get best block")
             ELSE [err           |-> "",
                   BlockHeader   |->
                       [Hash       |-> IF rpc.HashOK THEN BlockHashString(rpc.Height)
                                       ELSE OtherHashString,
                        MerkleRoot |-> IF rpc.RootOK THEN mp.MerkleRoot
                                       ELSE OtherHashString],
                   MerkleProof   |-> mp,
                   Transaction   |-> [TxHash |-> TxHashString(rpc.Txs[txIndex + 1]),
                                      NumOut |-> rpc.NumOut],
                   BlockHeight   |-> ComputedBlockHeight(rpc),
                   Confirmations |-> ComputedConfirmations(rpc),
                   BlockHash     |-> BlockHashString(rpc.Height)]

\* the checks of Generator.VerifyProof with the block hash compared first
GeneratorVerifyProofHashFirst(p) ==
    IF p.BlockHeader.Hash # p.BlockHash
    THEN "block hash mismatch"
    ELSE IF ~VerifyProof(p.MerkleProof)
    THEN "invalid merkle proof"
    ELSE IF p.BlockHeader.MerkleRoot # p.MerkleProof.MerkleRoot
    THEN "merkle root mismatch"
    ELSE IF p.Transaction.TxHash # p.MerkleProof.TxHash
    THEN "transaction hash mismatch"
    ELSE ""

\* Generator.VerifyProof: "" for nil, else the error
GeneratorVerifyProof(p) ==
    IF ~VerifyProof(p.MerkleProof)
    THEN "invalid merkle proof"
    ELSE IF p.BlockHeader.Hash # p.BlockHash
    THEN "block hash mismatch"
    ELSE IF p.BlockHeader.MerkleRoot # p.MerkleProof.MerkleRoot
    THEN "merkle root mismatch"
    ELSE IF p.Transaction.TxHash # p.MerkleProof.TxHash
    THEN "transaction hash mismatch"
    ELSE ""

\* Generator.FormatProofForContract, the serialised header left out
FormatProofForContract(p) ==
    [merkleProof   |-> p.MerkleProof.Proof,
     txHash        |-> p.MerkleProof.TxHash,
     txIndex       |-> p.MerkleProof.Index,
     merkleRoot    |-> p.MerkleProof.MerkleRoot,
     blockHeight   |-> p.BlockHeight,
     confirmations |-> p.Confirmations]

GetProofForUTXO(txHashStr, outputIndex, rpc) ==
    LET p == GeneratorGenerateProof(txHashStr, rpc)
    IN  IF p.err # ""
        THEN p
        ELSE IF outputIndex >= p.Transaction.NumOut
        THEN GenError("output index out of range")
        ELSE p

\* Generator.ValidateMinimumConfirmations: "" for nil, else the error
ValidateMinimumConfirmations(p, minConfirmations) ==
    IF p.Confirmations < minConfirmations
    THEN "insufficient confirmations"
    ELSE ""

RpcFailures == {"none", "GetRawTransactionVerbose", "GetBlockHeader", "GetBlock",
                "GetBestBlockHash", "GetBlockVerbose"}

\* the blocks of at most MaxBlockTxs transactions that hold transaction t
BlocksWith(t) ==
    {txs \in SeqsUpTo(1..NumDigests, MaxBlockTxs) :
        \E i \in 1..Len(txs) : txs[i] = t}

\* the provider's answers for transaction t; the confirmation count it
\* reports is the node's, tip - height + 1
RpcAnswers(t) ==
    {[fail |-> f,
      Height |-> IF h <= tip THEN h ELSE 0,
      Confirmations |-> IF h <= tip THEN ProviderConfirmations(tip, h) ELSE 0,
      Tip |-> tip, Txs |-> txs, HashOK |-> TRUE, RootOK |-> TRUE, NumOut |-> 1] :
        f \in RpcFailures, h \in 1..(MaxHeight + 1), tip \in 1..MaxHeight,
        txs \in BlocksWith(t)}

(***************************************************************************)
(* ProofCache.  The map `proofs` is a function from cache keys to entries; *)
(* time is read from the clock `now`.                                      *)
(***************************************************************************)
CacheKey(txHash, outputIndex) == <<txHash, outputIndex>>

CachedProof(p, t) == [Proof |-> p, CreatedAt |-> t, AccessedAt |-> t, UseCount |-> 1]

\* an expiry counted from the last access instead
ExpiredByAccess(e, t) == t - e.AccessedAt > CacheExpiration

\* time.Since(cached.CreatedAt) > pc.expiry
Expired(e, t) == t - e.CreatedAt > CacheExpiration

\* ProofCache.Get: whether it returns an entry, and the map afterwards
CacheGet(entries, key, t) ==
    IF key \notin DOMAIN entries
    THEN [found |-> FALSE, entries |-> entries]
    ELSE IF Expired(entries[key], t)
    THEN [found |-> FALSE, entries |-> entries]
    ELSE [found |-> TRUE,
          entries |-> [entries EXCEPT ![key].AccessedAt = t,
                                      ![key].UseCount = @ + 1]]

\* an eviction by insertion time instead: the keys of minimal CreatedAt
EvictCandidatesByCreation(entries) ==
    {k \in DOMAIN entries :
        \A j \in DOMAIN entries : ~(entries[j].CreatedAt < entries[k].CreatedAt)}

\* an eviction of the most recently accessed: the keys of maximal AccessedAt
EvictCandidatesNewest(entries) ==
    {k \in DOMAIN entries :
        \A j \in DOMAIN entries : ~(entries[k].AccessedAt < entries[j].AccessedAt)}

\* evictOldest ranges over the map in an order the runtime picks and keeps
\* the first key met whose AccessedAt none before it undercuts: any key of
\* minimal AccessedAt can be the one deleted
EvictCandidates(entries) ==
    {k \in DOMAIN entries :
        \A j \in DOMAIN entries : ~(entries[j].AccessedAt < entries[k].AccessedAt)}

Without(entries, key) == [k \in DOMAIN entries \ {key} |-> entries[k]]

\* the maps evictOldest can leave
evictOldest(entries) ==
    IF DOMAIN entries = {}
    THEN {entries}
    ELSE {Without(entries, k) : k \in EvictCandidates(entries)}

\* a capacity test that lets one entry more in
AtCapacityStrict(entries) == Cardinality(DOMAIN entries) > MaxCacheSize

\* len(pc.proofs) >= pc.maxSize
AtCapacity(entries) == Cardinality(DOMAIN entries) >= MaxCacheSize

\* an assignment that keeps the entry a stored key has
StoreIfAbsent(entries, key, e) ==
    [k \in DOMAIN entries \cup {key} |-> IF k \in DOMAIN entries THEN entries[k] ELSE e]

\* pc.proofs[key] = &CachedProof{...}
Store(entries, key, e) ==
    [k \in DOMAIN entries \cup {key} |-> IF k = key THEN e ELSE entries[k]]

\* the maps ProofCache.Set can leave
CacheSet(entries, key, p, t) ==
    {Store(kept, key, CachedProof(p, t)) :
        kept \in IF AtCapacity(entries) THEN evictOldest(entries) ELSE {entries}}

\* ProofCache.cleanup
cleanup(entries, t) ==
    [k \in {j \in DOMAIN entries : ~Expired(entries[j], t)} |-> entries[k]]

EmptyCache == [k \in {} |-> CachedProof(NoSPVProof, 0)]

\* time.Time{}, before every time of the clock
ZeroTime == -1

\* the sum of the use counters of the entries under `keys`
RECURSIVE SumUseCount(_, _)
SumUseCount(entries, keys) ==
    IF keys = {}
    THEN 0
    ELSE LET k == CHOOSE j \in keys : TRUE
         IN  entries[k].UseCount + SumUseCount(entries, keys \ {k})

\* the least and the greatest of a non-empty set of times
Earliest(times) == CHOOSE x \in times : \A y \in times : x <= y

Latest(times) == CHOOSE x \in times : \A y \in times : y <= x

\* Service.GetCacheStats: the loop ranges over every entry of the map
GetCacheStats(entries, t) ==
    LET accessed == {entries[k].AccessedAt : k \in DOMAIN entries}
    IN  [cache_size     |-> Cardinality(DOMAIN entries),
         max_cache_size |-> MaxCacheSize,
         total_hits     |-> SumUseCount(entries, DOMAIN entries),
         oldest_access  |-> Earliest(accessed \cup {t}),
         newest_access  |-> Latest(accessed \cup {ZeroTime})]

(***************************************************************************)
(* Service.  The chain the provider serves to the service: one block per   *)
(* clock tick, the best block at time t at height t + 1, transaction n in  *)
(* the block at height n behind that block's coinbase transaction; a       *)
(* transaction whose block is not mined yet is unconfirmed.                *)
(***************************************************************************)
TipAt(t) == t + 1

ChainRpc(n, t, f, hashOK, rootOK) ==
    [fail |-> f,
     Height |-> IF n <= TipAt(t) THEN n ELSE 0,
     Confirmations |-> IF n <= TipAt(t) THEN ProviderConfirmations(TipAt(t), n) ELSE 0,
     Tip |-> TipAt(t), Txs |-> <<NumTx + n, n>>,
     HashOK |-> hashOK, RootOK |-> rootOK, NumOut |-> 1]

ProofRequest(n, outputIndex, required) ==
    [TxHash |-> TxHashString(n), OutputIndex |-> outputIndex,
     RequiredConfirmations |-> required]

NoRequest == [TxHash |-> OtherHashString, OutputIndex |-> 0, RequiredConfirmations |-> 0]

\* what GenerateProof returns: err is "" for a nil error and the context of
\* the error otherwise; generated says whether the generator was invoked
NoResponse ==
    [req |-> NoRequest, err |-> "", Cached |-> FALSE, GeneratedAt |-> 0,
     Proof |-> NoSPVProof, generated |-> FALSE]

\* a hit test that asks for more confirmations than required
ServeFromCacheStrict(req, cached) ==
    \/ req.RequiredConfirmations = 0
    \/ cached.Proof.Confirmations > req.RequiredConfirmations

\* a test that serves whatever is cached
ServeFromCacheAny(req, cached) == TRUE

\* the test on a cache hit
ServeFromCache(req, cached) ==
    \/ req.RequiredConfirmations = 0
    \/ cached.Proof.Confirmations >= req.RequiredConfirmations

\* a minimum that ignores the request's
EffectiveMinimumDefault(req) == MinConfirmations

\* minConf
EffectiveMinimum(req) ==
    IF req.RequiredConfirmations = 0 THEN MinConfirmations ELSE req.RequiredConfirmations

ServiceError(req, context, generated) ==
    [NoResponse EXCEPT !.req = req, !.err = context, !.generated = generated]

ServiceResponse(req, p, cached, generatedAt, generated) ==
    [NoResponse EXCEPT !.req = req, !.Proof = p, !.Cached = cached,
                       !.GeneratedAt = generatedAt, !.generated = generated]

\* a generation that stores the proof before it is validated and verified
GenerateAnewStoreFirst(entries, t, req, gen) ==
    LET key == CacheKey(req.TxHash, req.OutputIndex)
        p   == gen.proof
    IN  IF p.err # ""
        THEN {[resp |-> ServiceError(req, "failed to generate proof", TRUE),
               proofs |-> entries]}
        ELSE IF ValidateMinimumConfirmations(p, EffectiveMinimum(req)) # ""
        THEN {[resp |-> ServiceError(req, "confirmation validation failed", TRUE),
               proofs |-> after] : after \in CacheSet(entries, key, p, t)}
        ELSE IF gen.verify # ""
        THEN {[resp |-> ServiceError(req, "proof verification failed", TRUE),
               proofs |-> after] : after \in CacheSet(entries, key, p, t)}
        ELSE {[resp |-> ServiceResponse(req, p, FALSE, t, TRUE), proofs |-> after] :
                 after \in CacheSet(entries, key, p, t)}

\* Service.GenerateProof from the part after the cache lookup: the outcomes
\* [resp, proofs] of generating anew over the map `entries`, where gen.proof
\* is what s.generator.GetProofForUTXO returns and gen.verify what
\* s.generator.VerifyProof returns for that proof
GenerateAnew(entries, t, req, gen) ==
    LET key == CacheKey(req.TxHash, req.OutputIndex)
        p   == gen.proof
    IN  IF p.err # ""
        THEN {[resp |-> ServiceError(req, "failed to generate proof", TRUE),
               proofs |-> entries]}
        ELSE IF ValidateMinimumConfirmations(p, EffectiveMinimum(req)) # ""
        THEN {[resp |-> ServiceError(req, "confirmation validation failed", TRUE),
               proofs |-> entries]}
        ELSE IF gen.verify # ""
        THEN {[resp |-> ServiceError(req, "proof verification failed", TRUE),
               proofs |-> entries]}
        ELSE {[resp |-> ServiceResponse(req, p, FALSE, t, TRUE), proofs |-> after] :
                 after \in CacheSet(entries, key, p, t)}

\* Service.GenerateProof up to the end of the cache lookup: whether the call
\* returns the cached proof, the response if so, and the map afterwards
ServiceLookup(entries, t, req) ==
    LET key == CacheKey(req.TxHash, req.OutputIndex)
        got == CacheGet(entries, key, t)
    IN  IF got.found /\ ServeFromCache(req, got.entries[key])
        THEN [served |-> TRUE,
              resp   |-> ServiceResponse(req, got.entries[key].Proof, TRUE,
                                         got.entries[key].CreatedAt, FALSE),
              proofs |-> got.entries]
        ELSE [served |-> FALSE, resp |-> NoResponse, proofs |-> got.entries]

\* Service.GenerateProof: the outcomes [resp, proofs] of one call at time t,
\* where gen is what the generator returns when it is called
ServiceGenerateProof(entries, t, req, gen) ==
    LET look == ServiceLookup(entries, t, req)
    IN  IF look.served
        THEN {[resp |-> look.resp, proofs |-> look.proofs]}
        ELSE GenerateAnew(look.proofs, t, req, gen)

\* what the provider does on one call, as <<failing RPC, header hashes to
\* the block hash, header carries the computed Merkle root>>: it answers
\* well, an RPC fails, or the header has another Merkle root
Environments ==
    <<<<"none", TRUE, TRUE>>, <<"GetBlock", TRUE, TRUE>>, <<"none", TRUE, FALSE>>>>

\* the generator on the request for output o of transaction n at time t
\* when the provider does e: GetProofForUTXO and VerifyProof of its result
GeneratorRun(n, o, t, e) ==
    LET p == GetProofForUTXO(TxHashString(n), o, ChainRpc(n, t, e[1], e[2], e[3]))
    IN  [proof |-> p, verify |-> IF p.err = "" THEN GeneratorVerifyProof(p) ELSE ""]

\* GeneratorRun tabulated over the calls the service makes, as nested
\* sequences: GeneratorRuns[n][o + 1][t + 1][i] is the run under Environments[i]
RECURSIVE RunsByEnvironment(_, _, _, _)
RunsByEnvironment(n, o, t, i) ==
    IF i = 0
    THEN <<>>
    ELSE Append(RunsByEnvironment(n, o, t, i - 1), GeneratorRun(n, o, t, Environments[i]))

RECURSIVE RunsByTime(_, _, _)
RunsByTime(n, o, t) ==
    IF t < 0
    THEN <<>>
    ELSE Append(RunsByTime(n, o, t - 1), RunsByEnvironment(n, o, t, Len(Environments)))

RECURSIVE RunsByTx(_)
RunsByTx(n) ==
    IF n = 0
    THEN <<>>
    ELSE Append(RunsByTx(n - 1), <<RunsByTime(n, 0, MaxTime), RunsByTime(n, 1, MaxTime)>>)

GeneratorRuns == RunsByTx(NumTx)

\* a hit would count one more use: the model follows an entry up to
\* MaxUseCount uses
UseCountBelowBound(entries, key, t) ==
    key \in DOMAIN entries /\ ~Expired(entries[key], t)
        => entries[key].UseCount < MaxUseCount

(***************************************************************************)
(* The states in which a component is not in use                           *)
(***************************************************************************)
NoRpc ==
    [fail |-> "none", Height |-> 0, Confirmations |-> 0, Tip |-> 0, Txs |-> <<>>,
     HashOK |-> TRUE, RootOK |-> TRUE, NumOut |-> 0]

MerkleIdle ==
    /\ txHashes = <<>>
    /\ tree = NoTree
    /\ proof = NoProof
    /\ verified = FALSE
    /\ mpc = "idle"

GeneratorIdle ==
    /\ gTx = OtherHashString
    /\ gRpc = NoRpc
    /\ gOut = NoSPVProof
    /\ gpc = "idle"

ServiceIdle ==
    /\ now = 0
    /\ proofs = EmptyCache

ReadersIdle ==
    /\ readerPc = <<>>
    /\ readerReg = <<>>
    /\ hits = 0

WebSocketIdle ==
    /\ wsClients = {}
    /\ wsSend = <<>>
    /\ wsClosed = <<>>
    /\ wsCloses = <<>>
    /\ wsTopics = <<>>
    /\ wsReadPump = <<>>
    /\ wsPanic = ""

NoCombinedError == [index |-> -1, err |-> ""]

BatchIdle ==
    /\ requests = <<>>
    /\ bmain = "idle"
    /\ spawned = 0
    /\ tpc = <<>>
    /\ wg = 0
    /\ sem = 0
    /\ responses = <<>>
    /\ errors = <<>>
    /\ combinedError = NoCombinedError
    /\ calls = <<>>
    /\ finished = <<>>
    /\ ctx = "live"

(***************************************************************************)
(* The Merkle operations applied to every input within the bounds          *)
(***************************************************************************)
MerkleInit ==
    /\ WebSocketIdle
    /\ ReadersIdle
    /\ txHashes \in SeqsUpTo(HexInputs, MaxLeaves)
    /\ tree = NoTree
    /\ proof = NoProof
    /\ verified = FALSE
    /\ mpc = "input"
    /\ GeneratorIdle
    /\ ServiceIdle
    /\ BatchIdle

DoNewMerkleTree ==
    /\ mpc = "input"
    /\ tree' = NewMerkleTree(txHashes)
    /\ mpc' = IF NewMerkleTree(txHashes).err = "" THEN "built" ELSE "rejected"
    /\ UNCHANGED <<txHashes, proof, verified>>
    /\ UNCHANGED <<gvars, svars, bvars, rvars, wvars>>

DoGenerateProof ==
    /\ mpc = "built"
    /\ \E i \in -1..Len(txHashes) :
          /\ proof' = GenerateProof(tree, i)
          /\ mpc' = IF GenerateProof(tree, i).err = "" THEN "proved" ELSE "built"
    /\ UNCHANGED <<txHashes, tree, verified>>
    /\ UNCHANGED <<gvars, svars, bvars, rvars, wvars>>

DoVerifyProof ==
    /\ mpc = "proved"
    /\ verified' = VerifyProof(proof)
    /\ mpc' = "verified"
    /\ UNCHANGED <<txHashes, tree, proof>>
    /\ UNCHANGED <<gvars, svars, bvars, rvars, wvars>>

MerkleNext == DoNewMerkleTree \/ DoGenerateProof \/ DoVerifyProof

SpecMerkle == MerkleInit /\ [][MerkleNext]_vars

(***************************************************************************)
(* Generator.GenerateProof applied to every request and every answer of    *)
(* the provider within the bounds                                          *)
(***************************************************************************)
GeneratorInit ==
    /\ WebSocketIdle
    /\ ReadersIdle
    /\ gTx \in {TxHashString(n) : n \in 1..NumDigests} \cup {BadHex}
    /\ gRpc \in UNION {RpcAnswers(n) : n \in 1..NumDigests}
    /\ gOut = NoSPVProof
    /\ gpc = "input"
    /\ MerkleIdle
    /\ ServiceIdle
    /\ BatchIdle

DoGeneratorGenerateProof ==
    /\ gpc = "input"
    /\ gOut' = GeneratorGenerateProof(gTx, gRpc)
    /\ gpc' = "done"
    /\ UNCHANGED <<gTx, gRpc>>
    /\ UNCHANGED <<mvars, svars, bvars, rvars, wvars>>

GeneratorNext == DoGeneratorGenerateProof

SpecGenerator == GeneratorInit /\ [][GeneratorNext]_vars

(***************************************************************************)
(* The cache under its own operations                                      *)
(***************************************************************************)
CacheKeys == {CacheKey(TxHashString(n), 0) : n \in 1..NumTx}

\* the proof a caller stores under a key
ProofFor(n) == GeneratorRuns[n][1][MaxTime + 1][1].proof

Tick ==
    /\ now < MaxTime
    /\ now' = now + 1
    /\ UNCHANGED proofs
    /\ UNCHANGED <<mvars, gvars, bvars, rvars, wvars>>

Get ==
    /\ \E key \in CacheKeys :
          /\ UseCountBelowBound(proofs, key, now)
          /\ proofs' = CacheGet(proofs, key, now).entries
    /\ UNCHANGED now
    /\ UNCHANGED <<mvars, gvars, bvars, rvars, wvars>>

Set ==
    /\ \E n \in 1..NumTx :
          /\ proofs' \in CacheSet(proofs, CacheKey(TxHashString(n), 0), ProofFor(n), now)
    /\ UNCHANGED now
    /\ UNCHANGED <<mvars, gvars, bvars, rvars, wvars>>

Cleanup ==
    /\ proofs' = cleanup(proofs, now)
    /\ UNCHANGED now
    /\ UNCHANGED <<mvars, gvars, bvars, rvars, wvars>>

ClearCache ==
    /\ proofs' = EmptyCache
    /\ UNCHANGED now
    /\ UNCHANGED <<mvars, gvars, bvars, rvars, wvars>>

CacheInit == MerkleIdle /\ GeneratorIdle /\ ServiceIdle /\ BatchIdle /\ ReadersIdle /\ WebSocketIdle

CacheNext == Tick \/ Get \/ Set \/ Cleanup \/ ClearCache

SpecCache == CacheInit /\ [][CacheNext]_vars

(***************************************************************************)
(* The service: GenerateProof calls, the cleanup task, ClearCache, time    *)
(***************************************************************************)
\* the requests <<n, outputIndex, required>> made of the service: every
\* minimum for output 0, which exists, and one request for output 1, which
\* does not
ServiceInputs ==
    {<<n, 0, r>> : n \in 1..NumTx, r \in 0..MaxRequired} \cup {<<n, 1, 0>> : n \in 1..NumTx}

ServiceCall ==
    /\ \E q \in ServiceInputs, i \in 1..Len(Environments) :
          /\ UseCountBelowBound(proofs, CacheKey(TxHashString(q[1]), q[2]), now)
          /\ \E out \in ServiceGenerateProof(proofs, now, ProofRequest(q[1], q[2], q[3]),
                                             GeneratorRuns[q[1]][q[2] + 1][now + 1][i]) :
                proofs' = out.proofs
    /\ UNCHANGED now
    /\ UNCHANGED <<mvars, gvars, bvars, rvars, wvars>>

Init == MerkleIdle /\ GeneratorIdle /\ ServiceIdle /\ BatchIdle /\ ReadersIdle /\ WebSocketIdle

Next == Tick \/ ServiceCall \/ Cleanup \/ ClearCache

Spec == Init /\ [][Next]_vars

(***************************************************************************)
(* BatchGenerateProofs: the caller spawns one task per request; a task     *)
(* takes a semaphore token, calls GenerateProof, writes its two slots,     *)
(* gives the token back and leaves the WaitGroup; the caller waits for     *)
(* all tasks and combines the errors                                       *)
(***************************************************************************)
\* a nil *ProofResponse
NilResponse == [NoResponse EXCEPT !.err = "nil"]

\* the requests of a batch: with the default minimum or with a minimum of one
BatchRequests == {ProofRequest(n, 0, r) : n \in 1..NumTx, r \in 0..1}

\* the transaction a request of the model names
TxNumber(req) == req.TxHash[2][1]

\* a slot shared by all tasks: the last one
SlotOfLast(index, n) == n

\* the slot a task writes: its parameter index, which the caller passed
\* as the loop's i; n is the number of requests
SlotOf(index, n) == index

\* the (resp, err) pair GenerateProof returns
Returned(resp) == IF resp.err = "" THEN resp ELSE NilResponse

\* a combination that keeps the last failing index instead of the first
CombineErrorsLast(errs) ==
    LET failing == {i \in 1..Len(errs) : errs[i] # ""}
        last    == CHOOSE i \in failing : \A j \in failing : j <= i
    IN  IF failing = {} THEN NoCombinedError ELSE [index |-> last - 1, err |-> errs[last]]

RECURSIVE FirstErrorFrom(_, _, _)
FirstErrorFrom(errs, i, acc) ==
    IF i > Len(errs)
    THEN acc
    ELSE FirstErrorFrom(errs, i + 1,
                        IF errs[i] # "" /\ acc = NoCombinedError
                        THEN [index |-> i - 1, err |-> errs[i]]
                        ELSE acc)

\* the loop over errors after wg.Wait: index is 0-based as in the message
CombineErrors(errs) == FirstErrorFrom(errs, 1, NoCombinedError)

BatchInit ==
    /\ WebSocketIdle
    /\ ReadersIdle
    /\ MerkleIdle
    /\ GeneratorIdle
    /\ now = BatchTime
    /\ proofs = EmptyCache
    /\ requests \in SeqsUpTo(BatchRequests, MaxBatch)
    /\ bmain = "spawning"
    /\ spawned = 0
    /\ tpc = [i \in 1..Len(requests) |-> "unspawned"]
    /\ wg = 0
    /\ sem = 0
    /\ responses = [i \in 1..Len(requests) |-> NilResponse]
    /\ errors = [i \in 1..Len(requests) |-> ""]
    /\ combinedError = NoCombinedError
    /\ calls = [i \in 1..Len(requests) |-> <<>>]
    /\ finished = <<>>
    /\ ctx \in {"live", "cancelled"}

\* the owner of the context cancels it while the call is running; neither
\* BatchGenerateProofs nor GenerateProof nor the generator reads ctx
Cancel ==
    /\ bmain = "spawning"
    /\ ctx = "live"
    /\ ctx' = "cancelled"
    /\ UNCHANGED <<requests, bmain, spawned, tpc, wg, sem, responses, errors,
                   combinedError, calls, finished>>
    /\ UNCHANGED <<mvars, gvars, svars, rvars, wvars>>

\* one iteration of the caller's loop: wg.Add(1) and the go statement
MainSpawn ==
    /\ bmain = "spawning"
    /\ spawned < Len(requests)
    /\ spawned' = spawned + 1
    /\ wg' = wg + 1
    /\ tpc' = [tpc EXCEPT ![spawned + 1] = "start"]
    /\ UNCHANGED <<ctx, requests, bmain, sem, responses, errors, combinedError, calls, finished>>
    /\ UNCHANGED <<mvars, gvars, svars, rvars, wvars>>

\* a channel that never fills
SemFullNever(tokens) == FALSE

\* a send on the channel sem blocks while its buffer holds SemLimit tokens
SemFull(tokens) == tokens >= SemLimit

\* sem <- struct{}{}
TaskAcquire(i) ==
    /\ tpc[i] = "start"
    /\ ~SemFull(sem)
    /\ sem' = sem + 1
    /\ tpc' = [tpc EXCEPT ![i] = "lookup"]
    /\ UNCHANGED <<ctx, requests, bmain, spawned, wg, responses, errors, combinedError,
                   calls, finished>>
    /\ UNCHANGED <<mvars, gvars, svars, rvars, wvars>>

\* GenerateProof up to the end of the cache lookup; on a served hit the call
\* returns and the task writes its slots.  The lookup is one step here: what
\* a hit writes under the shared lock, AccessedAt and UseCount, decides
\* neither what GenerateProof returns nor what the slots hold
TaskLookup(i) ==
    /\ tpc[i] = "lookup"
    /\ LET look == ServiceLookup(proofs, now, requests[i])
           slot == SlotOf(i, Len(requests))
       IN  /\ proofs' = look.proofs
           /\ IF look.served
              THEN /\ responses' = [responses EXCEPT ![slot] = Returned(look.resp)]
                   /\ errors' = [errors EXCEPT ![slot] = look.resp.err]
                   /\ calls' = [calls EXCEPT ![i] = Append(@, look.resp.err)]
                   /\ tpc' = [tpc EXCEPT ![i] = "release"]
              ELSE /\ tpc' = [tpc EXCEPT ![i] = "generate"]
                   /\ UNCHANGED <<responses, errors, calls>>
    /\ UNCHANGED <<ctx, requests, bmain, spawned, wg, sem, combinedError, finished, now>>
    /\ UNCHANGED <<mvars, gvars, rvars, wvars>>

\* the rest of GenerateProof, and the task's two slot writes
TaskGenerate(i) ==
    /\ tpc[i] = "generate"
    /\ \E e \in 1..Len(Environments) :
          \E out \in GenerateAnew(proofs, now, requests[i],
                                  GeneratorRuns[TxNumber(requests[i])]
                                               [requests[i].OutputIndex + 1][now + 1][e]) :
             LET slot == SlotOf(i, Len(requests))
             IN  /\ proofs' = out.proofs
                 /\ responses' = [responses EXCEPT ![slot] = Returned(out.resp)]
                 /\ errors' = [errors EXCEPT ![slot] = out.resp.err]
                 /\ calls' = [calls EXCEPT ![i] = Append(@, out.resp.err)]
    /\ tpc' = [tpc EXCEPT ![i] = "release"]
    /\ UNCHANGED <<ctx, requests, bmain, spawned, wg, sem, combinedError, finished, now>>
    /\ UNCHANGED <<mvars, gvars, rvars, wvars>>

\* a receive that leaves the token in the channel
AfterReceiveKept(tokens) == tokens

\* <-sem takes one token out of the channel
AfterReceive(tokens) == tokens - 1

\* the deferred calls: <-sem, then wg.Done()
TaskRelease(i) ==
    /\ tpc[i] = "release"
    /\ sem' = AfterReceive(sem)
    /\ wg' = wg - 1
    /\ tpc' = [tpc EXCEPT ![i] = "done"]
    /\ finished' = Append(finished, i)
    /\ UNCHANGED <<ctx, requests, bmain, spawned, responses, errors, combinedError, calls>>
    /\ UNCHANGED <<mvars, gvars, svars, rvars, wvars>>

\* a wait that does not wait
WaitReturnsAtOnce(counter) == TRUE

\* wg.Wait() blocks until the WaitGroup counter is zero
WaitReturns(counter) == counter = 0

\* wg.Wait() returns, the errors are combined and the call returns
MainReturn ==
    /\ bmain = "spawning"
    /\ spawned = Len(requests)
    /\ WaitReturns(wg)
    /\ bmain' = "returned"
    /\ combinedError' = CombineErrors(errors)
    /\ UNCHANGED <<ctx, requests, spawned, tpc, wg, sem, responses, errors, calls, finished>>
    /\ UNCHANGED <<mvars, gvars, svars, rvars, wvars>>

BatchNext ==
    \/ MainSpawn
    \/ \E i \in 1..MaxBatch : i <= Len(requests) /\ TaskAcquire(i)
    \/ \E i \in 1..MaxBatch : i <= Len(requests) /\ TaskLookup(i)
    \/ \E i \in 1..MaxBatch : i <= Len(requests) /\ TaskGenerate(i)
    \/ \E i \in 1..MaxBatch : i <= Len(requests) /\ TaskRelease(i)
    \/ MainReturn
    \/ Cancel

SpecBatch == BatchInit /\ [][BatchNext]_vars

(***************************************************************************)
(* BatchGenerateProofs on batches larger than the semaphore.  Every        *)
(* request names a transaction that is not mined yet, so that each call    *)
(* of GenerateProof misses the cache and fails in the generator, and the   *)
(* tasks differ in their index only.  Of the tasks at one position the     *)
(* one of lowest index moves: every schedule of the batch is one of these  *)
(* up to a renaming of its tasks.                                          *)
(***************************************************************************)
WideInit ==
    /\ WebSocketIdle
    /\ ReadersIdle
    /\ MerkleIdle
    /\ GeneratorIdle
    /\ now = BatchTime
    /\ proofs = EmptyCache
    /\ \E n \in 0..WideBatch : requests = [i \in 1..n |-> ProofRequest(NumTx, 0, 0)]
    /\ bmain = "spawning"
    /\ spawned = 0
    /\ tpc = [i \in 1..Len(requests) |-> "unspawned"]
    /\ wg = 0
    /\ sem = 0
    /\ responses = [i \in 1..Len(requests) |-> NilResponse]
    /\ errors = [i \in 1..Len(requests) |-> ""]
    /\ combinedError = NoCombinedError
    /\ calls = [i \in 1..Len(requests) |-> <<>>]
    /\ finished = <<>>
    /\ ctx = "live"

\* task i is the first of the tasks at its position
FirstAtPosition(i) ==
    /\ i <= Len(requests)
    /\ \A j \in 1..(i - 1) : tpc[j] # tpc[i]

WideNext ==
    \/ MainSpawn
    \/ \E i \in 1..WideBatch : FirstAtPosition(i) /\ TaskAcquire(i)
    \/ \E i \in 1..WideBatch : FirstAtPosition(i) /\ TaskLookup(i)
    \/ \E i \in 1..WideBatch : FirstAtPosition(i) /\ TaskGenerate(i)
    \/ \E i \in 1..WideBatch : FirstAtPosition(i) /\ TaskRelease(i)
    \/ MainReturn

SpecWide == WideInit /\ [][WideNext]_vars

\* the same under a fair scheduler: a goroutine that can run is run in the end
SpecWideFair == WideInit /\ [][WideNext]_vars /\ WF_vars(WideNext)

(***************************************************************************)
(* Concurrent calls of ProofCache.Get on one stored key.  Get holds only    *)
(* the read lock, which readers share, so the read and the write of        *)
(* cached.UseCount++ of one reader interleave with those of another; Set   *)
(* takes the write lock and runs when no reader is inside Get.             *)
(***************************************************************************)
RaceKey == CacheKey(TxHashString(1), 0)

RaceInit ==
    /\ MerkleIdle
    /\ WebSocketIdle
    /\ GeneratorIdle
    /\ BatchIdle
    /\ now = 0
    /\ proofs \in CacheSet(EmptyCache, RaceKey, ProofFor(1), 0)
    /\ readerPc = [r \in 1..NumReaders |-> "idle"]
    /\ readerReg = [r \in 1..NumReaders |-> 0]
    /\ hits = 0

\* the readers inside Get
Inside == {r \in 1..NumReaders : readerPc[r] # "idle"}

\* RLock, the lookup and the expiry test: a reader that finds the entry
\* unexpired goes on to update it
RaceGetLookup(r) ==
    /\ readerPc[r] = "idle"
    /\ hits + Cardinality(Inside) < MaxHits
    /\ RaceKey \in DOMAIN proofs
    /\ ~Expired(proofs[RaceKey], now)
    /\ readerPc' = [readerPc EXCEPT ![r] = "hit"]
    /\ UNCHANGED <<readerReg, hits, now, proofs>>
    /\ UNCHANGED <<mvars, gvars, bvars, wvars>>

\* cached.AccessedAt = time.Now() and the read of cached.UseCount
RaceGetLoad(r) ==
    /\ readerPc[r] = "hit"
    /\ proofs' = [proofs EXCEPT ![RaceKey].AccessedAt = now]
    /\ readerReg' = [readerReg EXCEPT ![r] = proofs[RaceKey].UseCount]
    /\ readerPc' = [readerPc EXCEPT ![r] = "loaded"]
    /\ UNCHANGED <<hits, now>>
    /\ UNCHANGED <<mvars, gvars, bvars, wvars>>

\* the write of cached.UseCount, the return and RUnlock
RaceGetStore(r) ==
    /\ readerPc[r] = "loaded"
    /\ proofs' = [proofs EXCEPT ![RaceKey].UseCount = readerReg[r] + 1]
    /\ readerReg' = [readerReg EXCEPT ![r] = 0]
    /\ readerPc' = [readerPc EXCEPT ![r] = "idle"]
    /\ hits' = hits + 1
    /\ UNCHANGED now
    /\ UNCHANGED <<mvars, gvars, bvars, wvars>>

\* ProofCache.Set of the key, under the write lock
RaceSet ==
    /\ Inside = {}
    /\ proofs' \in CacheSet(proofs, RaceKey, ProofFor(1), now)
    /\ hits' = 0
    /\ UNCHANGED <<readerPc, readerReg, now>>
    /\ UNCHANGED <<mvars, gvars, bvars, wvars>>

RaceTick ==
    /\ now < MaxTime
    /\ now' = now + 1
    /\ UNCHANGED <<proofs, readerPc, readerReg, hits>>
    /\ UNCHANGED <<mvars, gvars, bvars, wvars>>

RaceNext ==
    \/ \E r \in 1..NumReaders : RaceGetLookup(r) \/ RaceGetLoad(r) \/ RaceGetStore(r)
    \/ RaceSet
    \/ RaceTick

SpecRace == RaceInit /\ [][RaceNext]_vars

(***************************************************************************)
(* The WebSocket manager.  A client's send channel is buffered; a send on  *)
(* a closed channel and a close of a closed channel panic, which ends the  *)
(* process.  Each handler is one step.                                     *)
(***************************************************************************)
Clients == 1..NumClients

\* the manager's state as one record, for the operators below
WsState ==
    [clients |-> wsClients, send |-> wsSend, closed |-> wsClosed,
     closes |-> wsCloses, panic |-> wsPanic]

\* select { case c.send <- data: default: close(c.send) }, after which the
\* run loop also deletes the client (drop) and the other callers do not; a
\* send on a closed channel panics whatever the buffer holds
SelectSend(s, c, drop) ==
    IF s.panic # ""
    THEN s
    ELSE IF s.closed[c]
    THEN [s EXCEPT !.panic = "send on closed channel"]
    ELSE IF s.send[c] < SendBuffer
    THEN [s EXCEPT !.send[c] = @ + 1]
    ELSE [s EXCEPT !.closed[c] = TRUE,
                   !.closes[c] = @ + 1,
                   !.clients = IF drop THEN @ \ {c} ELSE @]

\* close(client.send)
CloseSend(s, c) ==
    IF s.closed[c]
    THEN [s EXCEPT !.closes[c] = @ + 1, !.panic = "close of closed channel"]
    ELSE [s EXCEPT !.closes[c] = @ + 1, !.closed[c] = TRUE]

\* the loop over m.clients in the order `order`, from its k-th client on
RECURSIVE Broadcast(_, _, _, _, _)
Broadcast(s, order, k, topicOnly, drop) ==
    IF k > Len(order)
    THEN s
    ELSE Broadcast(IF topicOnly /\ ~wsTopics[order[k]]
                   THEN s
                   ELSE SelectSend(s, order[k], drop),
                   order, k + 1, topicOnly, drop)

\* the orders a range over the map can take
Orders(set) ==
    {o \in [1..Cardinality(set) -> set] : \A i, j \in 1..Cardinality(set) : o[i] = o[j] => i = j}

\* the manager's state after a step
WsBecomes(s) ==
    /\ wsClients' = s.clients
    /\ wsSend' = s.send
    /\ wsClosed' = s.closed
    /\ wsCloses' = s.closes
    /\ wsPanic' = s.panic

WsInit ==
    /\ MerkleIdle
    /\ GeneratorIdle
    /\ ServiceIdle
    /\ BatchIdle
    /\ ReadersIdle
    /\ wsClients = {}
    /\ wsSend = [c \in Clients |-> 0]
    /\ wsClosed = [c \in Clients |-> FALSE]
    /\ wsCloses = [c \in Clients |-> 0]
    /\ wsTopics = [c \in Clients |-> FALSE]
    /\ wsReadPump = [c \in Clients |-> "new"]
    /\ wsPanic = ""

\* HandleWebSocket hands the client to run, which stores it and sends the
\* welcome message with sendMessage; the pumps start
WsHandleWebSocket(c) ==
    /\ wsPanic = ""
    /\ wsReadPump[c] = "new"
    /\ WsBecomes(SelectSend([WsState EXCEPT !.clients = @ \cup {c}], c, FALSE))
    /\ wsReadPump' = [wsReadPump EXCEPT ![c] = "running"]
    /\ UNCHANGED wsTopics
    /\ UNCHANGED <<mvars, gvars, svars, bvars, rvars>>

\* readPump reads a message and handleMessage answers it with sendMessage;
\* subscribe and unsubscribe set the topic first
WsHandleMessage(c) ==
    /\ wsPanic = ""
    /\ wsReadPump[c] = "running"
    /\ \E action \in {"subscribe", "unsubscribe", "ping"} :
          wsTopics' = [wsTopics EXCEPT ![c] = IF action = "subscribe" THEN TRUE
                                              ELSE IF action = "unsubscribe" THEN FALSE
                                              ELSE @]
    /\ WsBecomes(SelectSend(WsState, c, FALSE))
    /\ UNCHANGED wsReadPump
    /\ UNCHANGED <<mvars, gvars, svars, bvars, rvars>>

\* readPump ends and hands the client to run's unregister case
WsUnregister(c) ==
    /\ wsPanic = ""
    /\ wsReadPump[c] = "running"
    /\ wsReadPump' = [wsReadPump EXCEPT ![c] = "exited"]
    /\ IF c \in wsClients
       THEN WsBecomes(CloseSend([WsState EXCEPT !.clients = @ \ {c}], c))
       ELSE UNCHANGED <<wsClients, wsSend, wsClosed, wsCloses, wsPanic>>
    /\ UNCHANGED wsTopics
    /\ UNCHANGED <<mvars, gvars, svars, bvars, rvars>>

\* BroadcastToTopic
WsBroadcastToTopic ==
    /\ wsPanic = ""
    /\ \E order \in Orders(wsClients) :
          WsBecomes(Broadcast(WsState, order, 1, TRUE, FALSE))
    /\ UNCHANGED <<wsTopics, wsReadPump>>
    /\ UNCHANGED <<mvars, gvars, svars, bvars, rvars>>

\* BroadcastToAll and run's broadcast case
WsBroadcastToAll ==
    /\ wsPanic = ""
    /\ \E order \in Orders(wsClients) :
          WsBecomes(Broadcast(WsState, order, 1, FALSE, TRUE))
    /\ UNCHANGED <<wsTopics, wsReadPump>>
    /\ UNCHANGED <<mvars, gvars, svars, bvars, rvars>>

\* writePump takes a message out of the channel
WsWritePump(c) ==
    /\ wsPanic = ""
    /\ wsSend[c] > 0
    /\ wsSend' = [wsSend EXCEPT ![c] = @ - 1]
    /\ UNCHANGED <<wsClients, wsClosed, wsCloses, wsTopics, wsReadPump, wsPanic>>
    /\ UNCHANGED <<mvars, gvars, svars, bvars, rvars>>

WsNext ==
    \/ \E c \in Clients : WsHandleWebSocket(c)
    \/ \E c \in Clients : WsHandleMessage(c)
    \/ \E c \in Clients : WsUnregister(c)
    \/ WsBroadcastToTopic
    \/ WsBroadcastToAll
    \/ \E c \in Clients : WsWritePump(c)

SpecWs == WsInit /\ [][WsNext]_vars

(***************************************************************************)
(* The claims                                                              *)
(***************************************************************************)

\* C1: for every non-empty sequence of digests, one of length 1 included, and
\* every index in range, the proof GenerateProof builds from the tree of
\* NewMerkleTree is accepted by VerifyProof.
C1_RoundTrip == mpc = "verified" => verified

\* C2: the proof Generator.GenerateProof returns has Confirmations equal to
\* the tip height minus the height of the transaction's block plus one, when
\* the provider reports that count for the transaction.
C2_ConfirmationsFromTip ==
    (/\ gpc = "done"
     /\ gOut.err = ""
     /\ gRpc.Height <= gRpc.Tip
     /\ gRpc.Confirmations = gRpc.Tip - gRpc.Height + 1)
        => gOut.Confirmations = gRpc.Tip - gRpc.Height + 1

\* C3: a call of Service.GenerateProof that finds an unexpired entry under
\* its key, with the request's RequiredConfirmations 0 or at most the cached
\* proof's Confirmations, returns that proof with Cached and with the entry's
\* CreatedAt as GeneratedAt, does not invoke the generator, and leaves the
\* entry's proof and creation time and the set of keys as they were.
C3_CacheHitServed ==
    \A q \in ServiceInputs, i \in 1..Len(Environments) :
      LET n == q[1]
          o == q[2]
          r == q[3]
      IN
        LET key == CacheKey(TxHashString(n), o)
        IN  (/\ key \in DOMAIN proofs
             /\ now - proofs[key].CreatedAt <= CacheExpiration
             /\ (r = 0 \/ proofs[key].Proof.Confirmations >= r))
                => \A out \in ServiceGenerateProof(proofs, now, ProofRequest(n, o, r),
                                                   GeneratorRuns[n][o + 1][now + 1][i]) :
                      /\ out.resp.err = ""
                      /\ out.resp.Cached
                      /\ out.resp.Proof = proofs[key].Proof
                      /\ out.resp.GeneratedAt = proofs[key].CreatedAt
                      /\ ~out.resp.generated
                      /\ DOMAIN out.proofs = DOMAIN proofs
                      /\ out.proofs[key].Proof = proofs[key].Proof
                      /\ out.proofs[key].CreatedAt = proofs[key].CreatedAt

\* an entry created earlier, still unexpired, that has been served from the
\* cache to every kind of request
C3_Witness ==
    \E key \in DOMAIN proofs :
        /\ proofs[key].CreatedAt < now
        /\ now - proofs[key].CreatedAt <= CacheExpiration
        /\ proofs[key].Proof.Confirmations >= MaxRequired
        /\ proofs[key].UseCount >= 2

\* C4: on a miss, or a hit whose cached Confirmations are below the request's
\* RequiredConfirmations, Service.GenerateProof returns a response, not
\* Cached, only if the fresh proof's Confirmations reach the effective
\* minimum (the request's if set, else the configured default) and
\* Generator.VerifyProof accepts it; otherwise it returns the error
\* "failed to generate proof", else "confirmation validation failed", else
\* "proof verification failed", in this order of precedence.
C4_MissGeneratesAndChecks ==
    \A q \in ServiceInputs, i \in 1..Len(Environments) :
      LET n == q[1]
          o == q[2]
          r == q[3]
      IN
        LET key == CacheKey(TxHashString(n), o)
            hit == /\ key \in DOMAIN proofs
                   /\ now - proofs[key].CreatedAt <= CacheExpiration
            gen == GeneratorRuns[n][o + 1][now + 1][i]
            p   == gen.proof
            min == IF r = 0 THEN MinConfirmations ELSE r
        IN  (~hit \/ (r # 0 /\ proofs[key].Proof.Confirmations < r))
                => \A out \in ServiceGenerateProof(proofs, now, ProofRequest(n, o, r), gen) :
                      /\ out.resp.generated
                      /\ out.resp.err =
                            IF p.err # "" THEN "failed to generate proof"
                            ELSE IF p.Confirmations < min
                            THEN "confirmation validation failed"
                            ELSE IF gen.verify # ""
                            THEN "proof verification failed"
                            ELSE ""
                      /\ out.resp.err = "" => ~out.resp.Cached /\ out.resp.Proof = p

\* a proof was generated, passed a minimum the request set below the default
\* and was returned; and in this state each of the three errors is returned
\* to some request
C4_Witness ==
    /\ \E key \in DOMAIN proofs : proofs[key].Proof.Confirmations < MinConfirmations
    /\ \A e \in {"failed to generate proof", "confirmation validation failed",
                 "proof verification failed"} :
          \E q \in ServiceInputs, i \in 1..Len(Environments) :
            LET n == q[1]
                o == q[2]
                r == q[3]
            IN
             \E out \in ServiceGenerateProof(proofs, now, ProofRequest(n, o, r),
                                             GeneratorRuns[n][o + 1][now + 1][i]) :
                out.resp.err = e

\* C5: Service.GenerateProof stores a proof only after generation,
\* confirmation validation and verification have all succeeded: a call that
\* returns an error leaves the set of keys and the proof under each key as
\* they were, and a call after which the key holds a new entry returned no
\* error.
C5_StoreOnlyAfterSuccess ==
    \A q \in ServiceInputs, i \in 1..Len(Environments) :
      LET n == q[1]
          o == q[2]
          r == q[3]
      IN
        \A out \in ServiceGenerateProof(proofs, now, ProofRequest(n, o, r),
                                        GeneratorRuns[n][o + 1][now + 1][i]) :
            LET key    == CacheKey(TxHashString(n), o)
                same   == /\ DOMAIN out.proofs = DOMAIN proofs
                          /\ \A k \in DOMAIN proofs :
                                /\ out.proofs[k].Proof = proofs[k].Proof
                                /\ out.proofs[k].CreatedAt = proofs[k].CreatedAt
                stored == /\ key \in DOMAIN out.proofs
                          /\ out.proofs[key].UseCount = 1
                          /\ out.proofs[key].CreatedAt = now
                          /\ (key \in DOMAIN proofs => out.proofs[key] # proofs[key])
            IN  /\ out.resp.err # "" => same
                /\ stored => out.resp.err = "" /\ out.resp.generated

\* a cache holding an entry, in a state where a call on that entry's key
\* fails after the hit and another call stores a new entry
C5_Witness ==
    /\ \E n \in 1..NumTx, r \in 0..MaxRequired, i \in 1..Len(Environments) :
          /\ CacheKey(TxHashString(n), 0) \in DOMAIN proofs
          /\ \E out \in ServiceGenerateProof(proofs, now, ProofRequest(n, 0, r),
                                             GeneratorRuns[n][1][now + 1][i]) :
                out.resp.err = "proof verification failed"
    /\ \E n \in 1..NumTx, r \in 0..MaxRequired, i \in 1..Len(Environments) :
          /\ CacheKey(TxHashString(n), 0) \notin DOMAIN proofs
          /\ \E out \in ServiceGenerateProof(proofs, now, ProofRequest(n, 0, r),
                                             GeneratorRuns[n][1][now + 1][i]) :
                out.resp.err = "" /\ CacheKey(TxHashString(n), 0) \in DOMAIN out.proofs

\* C6: a Set on a cache holding MaxCacheSize entries evicts exactly one
\* entry, one whose AccessedAt is minimal over the stored entries, then
\* stores the new entry; every other entry stays as it was.
C6_EvictsLeastRecentlyAccessed ==
    \A n \in 1..NumTx :
        LET key == CacheKey(TxHashString(n), 0)
        IN  Cardinality(DOMAIN proofs) = MaxCacheSize
                => \A after \in CacheSet(proofs, key, ProofFor(n), now) :
                      \E old \in DOMAIN proofs :
                         /\ \A j \in DOMAIN proofs :
                               proofs[old].AccessedAt <= proofs[j].AccessedAt
                         /\ DOMAIN after = (DOMAIN proofs \ {old}) \cup {key}
                         /\ \A k \in DOMAIN after \ {key} : after[k] = proofs[k]

\* a full cache in which Get has reordered recency: the entry created first
\* was accessed after the entry created later
C6_Witness ==
    /\ Cardinality(DOMAIN proofs) = MaxCacheSize
    /\ \E a, b \in DOMAIN proofs :
          /\ proofs[a].CreatedAt < proofs[b].CreatedAt
          /\ proofs[b].AccessedAt < proofs[a].AccessedAt
          /\ \A j \in DOMAIN proofs : proofs[b].AccessedAt <= proofs[j].AccessedAt

\* C7: Get returns no entry for a stored entry whose age since CreatedAt
\* exceeds the expiry, whatever hits it has received and although it is
\* still in the map.
C7_ExpiredIsAbsent ==
    \A key \in DOMAIN proofs :
        now - proofs[key].CreatedAt > CacheExpiration
            => ~CacheGet(proofs, key, now).found

\* a stored entry past its expiry that was hit less than the expiry ago
C7_Witness ==
    \E key \in DOMAIN proofs :
        /\ now - proofs[key].CreatedAt > CacheExpiration
        /\ now - proofs[key].AccessedAt <= CacheExpiration
        /\ proofs[key].UseCount >= 2

\* C8: the number of stored entries never exceeds the maximum size.
C8_SizeBounded == Cardinality(DOMAIN proofs) <= MaxCacheSize

\* a full cache whose entries were created at different times, the latest
\* one now
C8_Witness ==
    /\ Cardinality(DOMAIN proofs) = MaxCacheSize
    /\ \E a, b \in DOMAIN proofs :
          proofs[a].CreatedAt < proofs[b].CreatedAt /\ proofs[b].CreatedAt = now

\* C9: BatchGenerateProofs over N requests returns N response slots; slot i
\* is non-nil exactly if the GenerateProof call for request i succeeded, and
\* then holds the response to request i; GenerateProof was called exactly
\* once for each request, so with K failing requests N - K slots are
\* populated; whatever the order the tasks finished in.
C9_SlotsMatchRequests ==
    bmain = "returned" =>
        /\ Len(responses) = Len(requests)
        /\ \A i \in 1..Len(requests) :
              /\ Len(calls[i]) = 1
              /\ responses[i] # NilResponse <=> calls[i][1] = ""
              /\ responses[i] # NilResponse =>
                    /\ responses[i].req = requests[i]
                    /\ responses[i].Proof.Transaction.TxHash = requests[i].TxHash
        /\ Cardinality({i \in 1..Len(requests) : responses[i] # NilResponse})
              = Len(requests) - Cardinality({i \in 1..Len(requests) : calls[i][1] # ""})

\* a batch that returned with the first request failed and a later one
\* served, the later task having finished first
C9_Witness ==
    /\ bmain = "returned"
    /\ Len(requests) >= 2
    /\ responses[1] = NilResponse
    /\ responses[Len(requests)] # NilResponse
    /\ finished[1] = Len(requests)

\* C10: the combined error BatchGenerateProofs returns is nil exactly if
\* every request succeeded; otherwise it names the lowest index among the
\* failing requests and wraps that request's error, whatever the order the
\* tasks finished in.
C10_CombinedErrorIsFirstFailing ==
    bmain = "returned" =>
        LET failing == {i \in 1..Len(requests) : calls[i][1] # ""}
        IN  /\ combinedError = NoCombinedError <=> failing = {}
            /\ \A m \in failing :
                  (\A j \in failing : m <= j)
                      => combinedError = [index |-> m - 1, err |-> calls[m][1]]

\* a batch that returned with two requests failed on different errors, the
\* task of the higher index having finished first
C10_Witness ==
    /\ bmain = "returned"
    /\ Len(requests) >= 2
    /\ calls[1][1] # ""
    /\ calls[Len(requests)][1] # ""
    /\ calls[1][1] # calls[Len(requests)][1]
    /\ finished[1] = Len(requests)
    /\ combinedError.index = 0

\* C11: at every moment of a BatchGenerateProofs call at most SemLimit (10)
\* of its tasks are executing GenerateProof, whatever the batch size and
\* the schedule.
C11_AtMostTenInGenerateProof ==
    Cardinality({i \in 1..Len(requests) : tpc[i] \in {"lookup", "generate"}}) <= SemLimit

\* SemLimit tasks are executing GenerateProof and a further task has been
\* spawned and waits for a token
C11_Witness ==
    /\ Cardinality({i \in 1..Len(requests) : tpc[i] \in {"lookup", "generate"}}) = SemLimit
    /\ \E i \in 1..Len(requests) : tpc[i] = "start"

\* C12: when BatchGenerateProofs has returned, every task it spawned has
\* finished and has written its response or error slot.
C12_ReturnsAfterAllTasks ==
    bmain = "returned" =>
        /\ spawned = Len(requests)
        /\ \A i \in 1..Len(requests) :
              /\ tpc[i] = "done"
              /\ responses[i] # NilResponse \/ errors[i] # ""

\* a batch of two or more requests has returned, and its last task was not
\* the last to finish
C12_Witness ==
    /\ bmain = "returned"
    /\ Len(requests) >= 2
    /\ finished[Len(requests)] # Len(requests)

\* C13: a request whose context is cancelled before or while it is
\* processed ends with a cancellation error: a task that is about to look
\* up or to generate under a cancelled context returns the error
\* "context canceled" from GenerateProof, neither a domain error nor a proof.
C13_CancelledRequestEndsCancelled ==
    \A i \in 1..Len(requests) :
        ctx = "cancelled" /\ tpc[i] \in {"lookup", "generate"}
            => \A e \in 1..Len(Environments) :
                  LET gen == GeneratorRuns[TxNumber(requests[i])]
                                          [requests[i].OutputIndex + 1][now + 1][e]
                  IN  \A out \in IF tpc[i] = "lookup"
                                 THEN ServiceGenerateProof(proofs, now, requests[i], gen)
                                 ELSE GenerateAnew(proofs, now, requests[i], gen) :
                         out.resp.err = "context canceled"


\* the hex strings a sibling of a proof can be replaced by: every digest and
\* the hash of every node of the tree
Replacements ==
    {EncodeToString(d) : d \in Digests}
        \cup {EncodeToString(tree.Nodes[j].Hash) : j \in 1..Len(tree.Nodes)}

\* C14: for every proof of GenerateProof that VerifyProof accepts, the proof
\* with any one sibling digest replaced by a different digest is rejected by
\* VerifyProof.
C14_TamperedSiblingRejected ==
    (mpc = "verified" /\ verified) =>
        \A k \in 1..Len(proof.Proof) :
            \A d \in Replacements \ {proof.Proof[k]} :
                ~VerifyProof([proof EXCEPT !.Proof[k] = d])

\* an accepted proof of two siblings, a left and a right one
C14_Witness ==
    /\ mpc = "verified"
    /\ verified
    /\ Len(proof.Proof) = 2
    /\ proof.Index = 1
    /\ proof.Proof[1] # proof.Proof[2]

\* C15: the tree of an odd number of three or more digests has the root hash
\* of the tree of the same digests followed by the last one once more: the
\* last node of an odd level is paired with itself.
C15_OddLevelDuplicatesLast ==
    (mpc = "built" /\ Len(txHashes) >= 3 /\ Len(txHashes) % 2 = 1) =>
        LET doubled == NewMerkleTree(Append(txHashes, txHashes[Len(txHashes)]))
        IN  /\ doubled.err = ""
            /\ doubled.Nodes[doubled.Root].Hash = tree.Nodes[tree.Root].Hash

\* a tree built of three different identifiers
C15_Witness ==
    /\ mpc = "built"
    /\ Len(txHashes) = 3
    /\ txHashes[1] # txHashes[2]
    /\ txHashes[2] # txHashes[3]
    /\ txHashes[1] # txHashes[3]

\* C16: the tree of a single digest has its lone leaf as Root and the digest
\* as root hash: no hashing round is applied.
C16_SingleLeafIsRoot ==
    (mpc = "built" /\ Len(txHashes) = 1) =>
        /\ tree.Root = tree.Leaves[1]
        /\ Len(tree.Nodes) = 1
        /\ tree.Nodes[tree.Root].IsLeaf
        /\ tree.Nodes[tree.Root].Hash = DecodeString(txHashes[1]).bytes

\* a tree built of one digest
C16_Witness == mpc = "built" /\ Len(txHashes) = 1 /\ txHashes[1] = EncodeToString(<<1>>)


\* C17: GenerateProof of a tree fails with the index-out-of-range error
\* exactly when the index is below 0 or at least the number of leaves, -1 and
\* the number of leaves included; for every other index the proof has the
\* digest of that leaf as TxHash, the index as Index, the number of leaves as
\* TotalTxs and the root hash as MerkleRoot; the tree stays as built.
C17_IndexRangeAndFields ==
    (mpc \in {"built", "proved", "verified"}) =>
        /\ tree = NewMerkleTree(txHashes)
        /\ \A i \in -1..(Len(txHashes) + 1) :
              LET p == GenerateProof(tree, i)
              IN  IF i < 0 \/ i >= Len(txHashes)
                  THEN p.err = "IndexOutOfRange"
                  ELSE /\ p.err = ""
                       /\ p.TxHash = EncodeToString(DecodeString(txHashes[i + 1]).bytes)
                       /\ p.Index = i
                       /\ p.TotalTxs = Len(txHashes)
                       /\ p.MerkleRoot = EncodeToString(tree.Nodes[tree.Root].Hash)

\* a proof generated for the last leaf of a tree of several leaves
C17_Witness ==
    /\ mpc = "proved"
    /\ Len(txHashes) >= 2
    /\ proof.Index = Len(txHashes) - 1
    /\ GenerateProof(tree, Len(txHashes)).err = "IndexOutOfRange"

\* the hex string s with a character that is no hex digit in it
Corrupted(s) == <<"bad", s[2]>>

\* C18: VerifyProof returns false for a nil proof, for a proof with no
\* siblings, for a proof with no Merkle root, and for a proof whose TxHash,
\* MerkleRoot or any sibling is not valid hex.
C18_MalformedProofRejected ==
    (mpc \in {"proved", "verified"}) =>
        /\ ~VerifyProof(NoProof)
        /\ ~VerifyProof(GenerateProof(tree, -1))
        /\ ~VerifyProof([proof EXCEPT !.Proof = <<>>])
        /\ ~VerifyProof([proof EXCEPT !.MerkleRoot = EncodeToString(<<>>)])
        /\ ~VerifyProof([proof EXCEPT !.TxHash = Corrupted(proof.TxHash)])
        /\ ~VerifyProof([proof EXCEPT !.MerkleRoot = Corrupted(proof.MerkleRoot)])
        /\ \A k \in 1..Len(proof.Proof) :
              ~VerifyProof([proof EXCEPT !.Proof[k] = Corrupted(proof.Proof[k])])

\* an accepted proof with siblings at hand, whose malformed variants the
\* property rejects
C18_Witness ==
    /\ mpc = "verified"
    /\ verified
    /\ Len(proof.Proof) >= 1
    /\ ~VerifyProof([proof EXCEPT !.Proof[1] = Corrupted(proof.Proof[1])])


\* C19: NewMerkleTree returns an error and no tree whenever the input is
\* empty or some identifier is not the hex encoding of a digest of the right
\* length; when it succeeds the leaves are in input order and leaf k carries
\* index k.
C19_RejectsMalformedInput ==
    LET WellFormedDigest(s) ==
            ~DecodeString(s).err /\ DecodeString(s).bytes \in Digests
    IN
    (mpc # "input") =>
        /\ (txHashes = <<>> \/ \E k \in 1..Len(txHashes) : ~WellFormedDigest(txHashes[k]))
              => (tree.err # "" /\ tree.Root = Nil /\ tree.Nodes = <<>>)
        /\ tree.err = "" =>
              /\ Len(tree.Leaves) = Len(txHashes)
              /\ \A k \in 1..Len(txHashes) :
                    /\ tree.Nodes[tree.Leaves[k]].Hash = DecodeString(txHashes[k]).bytes
                    /\ tree.Nodes[tree.Leaves[k]].Index = k - 1


\* the proof p with the chosen parts made to disagree: a sibling of the
\* Merkle proof replaced by another digest (m), the recorded block hash (b),
\* the header's Merkle root (r), the transaction's hash (t)
Disagreeing(p, m, b, r, t) ==
    [p EXCEPT
        !.MerkleProof.Proof =
            IF m /\ Len(@) >= 1
            THEN [@ EXCEPT ![1] = IF @ = TxHashString(1) THEN TxHashString(2)
                                  ELSE TxHashString(1)]
            ELSE @,
        !.BlockHash = IF b THEN OtherHashString ELSE @,
        !.BlockHeader.MerkleRoot = IF r THEN OtherHashString ELSE @,
        !.Transaction.TxHash = IF t THEN OtherHashString ELSE @]

\* C20: Generator.VerifyProof returns nil exactly when the Merkle check
\* passes, the header hash equals BlockHash, the header's root equals the
\* Merkle proof's root and the transaction's hash equals the Merkle proof's
\* TxHash; otherwise its error is that of the first failing check in the
\* order InvalidMerkleProof, BlockHashMismatch, MerkleRootMismatch,
\* TxHashMismatch.
C20_FirstFailingCheck ==
    (gpc = "done" /\ gOut.err = "") =>
        \A m, b, r, t \in BOOLEAN :
            GeneratorVerifyProof(Disagreeing(gOut, m, b, r, t)) =
                IF m \/ ~VerifyProof(gOut.MerkleProof)
                THEN "invalid merkle proof"
                ELSE IF b THEN "block hash mismatch"
                ELSE IF r THEN "merkle root mismatch"
                ELSE IF t THEN "transaction hash mismatch"
                ELSE ""

\* a generated proof that passes all four checks, and whose variants fail
\* each of the last three alone
C20_Witness ==
    /\ gpc = "done"
    /\ gOut.err = ""
    /\ GeneratorVerifyProof(gOut) = ""
    /\ GeneratorVerifyProof(Disagreeing(gOut, FALSE, TRUE, TRUE, TRUE)) = "block hash mismatch"
    /\ GeneratorVerifyProof(Disagreeing(gOut, FALSE, FALSE, TRUE, TRUE)) = "merkle root mismatch"
    /\ GeneratorVerifyProof(Disagreeing(gOut, FALSE, FALSE, FALSE, TRUE)) = "transaction hash mismatch"


\* C21: GetCacheStats reports as total_hits the sum of the use counters of
\* the unexpired entries only, and as oldest_access and newest_access the
\* least and the greatest AccessedAt of the unexpired entries only.
C21_StatsOverLiveEntries ==
    LET live  == {k \in DOMAIN proofs : ~Expired(proofs[k], now)}
        stats == GetCacheStats(proofs, now)
    IN  /\ stats.total_hits = SumUseCount(proofs, live)
        /\ live # {} =>
              /\ stats.oldest_access = Earliest({proofs[k].AccessedAt : k \in live})
              /\ stats.newest_access = Latest({proofs[k].AccessedAt : k \in live})


\* C22: for every accepted leaf sequence and every index in range, the
\* sibling list GenerateProof finds by searching the pointer tree equals the
\* list computed by arithmetic on levels: at each level below the root the
\* sibling of position p is position p XOR 1, or p itself when p is the last
\* element of an odd level; next position p div 2; leaf-to-root order, one
\* entry per level below the root, identical digests among the leaves or not.
C22_PathMatchesLevelArithmetic ==
    LET RECURSIVE ByLevels(_, _)
        ByLevels(level, p) ==
            IF Len(level) = 1
            THEN <<>>
            ELSE LET partner == IF p % 2 = 1 THEN p - 1
                                ELSE IF p + 1 < Len(level) THEN p + 1 ELSE p
                     m == (Len(level) + 1) \div 2
                     above == [j \in 1..m |->
                         doubleSHA256(level[2 * j - 1] \o
                             (IF 2 * j <= Len(level) THEN level[2 * j]
                              ELSE level[2 * j - 1]))]
                 IN  <<EncodeToString(level[partner + 1])>> \o ByLevels(above, p \div 2)
        RECURSIVE LevelsBelowRoot(_)
        LevelsBelowRoot(n) == IF n = 1 THEN 0 ELSE 1 + LevelsBelowRoot((n + 1) \div 2)
    IN  (mpc \in {"built", "proved", "verified"}) =>
            \A i \in 0..(Len(txHashes) - 1) :
                LET leaves == [k \in 1..Len(txHashes) |-> DecodeString(txHashes[k]).bytes]
                IN  /\ GenerateProof(tree, i).Proof = ByLevels(leaves, i)
                    /\ Len(GenerateProof(tree, i).Proof) = LevelsBelowRoot(Len(txHashes))

\* a proof for the last leaf of three, the first two leaves carrying the same
\* digest
C22_Witness ==
    /\ mpc = "proved"
    /\ Len(txHashes) = 3
    /\ txHashes[1] = txHashes[2]
    /\ proof.Index = 2
    /\ Len(proof.Proof) = 2


\* C23: under any interleaving of concurrent Get calls, when no reader is
\* inside Get the use counter of the entry equals 1 plus the number of Get
\* hits on its key since it was set.
C23_NoLostIncrement ==
    (Inside = {} /\ RaceKey \in DOMAIN proofs) =>
        proofs[RaceKey].UseCount = 1 + hits


\* C24: for every batch size, sizes above the concurrency limit of 10
\* included, under a fair scheduler and with GenerateProof calls that
\* terminate, BatchGenerateProofs eventually returns, every task eventually
\* acquires a semaphore slot, and no deadlock is reachable: until the call
\* has returned some step can be taken.
C24_BatchEventuallyReturns ==
    /\ <>(bmain = "returned")
    /\ \A i \in 1..WideBatch :
          <>(i <= Len(requests) => tpc[i] \in {"lookup", "generate", "release", "done"})
    /\ [](bmain # "returned" => ENABLED WideNext)

\* a batch larger than the semaphore that has returned
C24_Witness ==
    /\ bmain = "returned"
    /\ Len(requests) > SemLimit
    /\ \A i \in 1..Len(requests) : tpc[i] = "done"


\* C25: the proof Generator.GenerateProof returns has BlockHeight equal to
\* the height of the block that holds the transaction, so that BlockHeight +
\* Confirmations - 1 is the tip height, and FormatProofForContract exports
\* that height as blockHeight.
C25_BlockHeightIsHeight ==
    (/\ gpc = "done"
     /\ gOut.err = ""
     /\ gRpc.Height <= gRpc.Tip
     /\ gRpc.Confirmations = gRpc.Tip - gRpc.Height + 1)
        => /\ gOut.BlockHeight = gRpc.Height
           /\ gOut.BlockHeight + gOut.Confirmations - 1 = gRpc.Tip
           /\ FormatProofForContract(gOut).blockHeight = gRpc.Height


\* C26 as stated: every successful response of Service.GenerateProof, served
\* from the cache or generated, carries a proof whose Confirmations are at
\* least the effective minimum of its request: the request's
\* RequiredConfirmations if set, else the configured default.
C26_EveryResponseMeetsMinimum ==
    \A q \in ServiceInputs, i \in 1..Len(Environments) :
        LET req == ProofRequest(q[1], q[2], q[3])
        IN  \A out \in ServiceGenerateProof(proofs, now, req,
                                            GeneratorRuns[q[1]][q[2] + 1][now + 1][i]) :
                out.resp.err = ""
                    => out.resp.Proof.Confirmations >= EffectiveMinimum(req)

\* C26, amended: a generated successful response carries a proof whose
\* Confirmations are at least the effective minimum of its request; a
\* successful response served from the cache carries a proof whose
\* Confirmations are at least the request's RequiredConfirmations when that
\* is set, and is not held to the default when it is not.
C26_MinimumByOrigin ==
    \A q \in ServiceInputs, i \in 1..Len(Environments) :
        LET req == ProofRequest(q[1], q[2], q[3])
        IN  \A out \in ServiceGenerateProof(proofs, now, req,
                                            GeneratorRuns[q[1]][q[2] + 1][now + 1][i]) :
                out.resp.err = ""
                    => IF out.resp.Cached
                       THEN \/ req.RequiredConfirmations = 0
                            \/ out.resp.Proof.Confirmations >= req.RequiredConfirmations
                       ELSE out.resp.Proof.Confirmations >= EffectiveMinimum(req)

\* the cache holds an unexpired proof with fewer confirmations than the
\* default minimum, stored for a request that asked for fewer
C26_Witness ==
    \E key \in DOMAIN proofs :
        /\ ~Expired(proofs[key], now)
        /\ proofs[key].Proof.Confirmations >= 1
        /\ proofs[key].Proof.Confirmations < MinConfirmations


\* C27: if VerifyProof accepts a proof whose MerkleRoot is the root of the
\* tree built from two or more leaves, the proof's Index is below the number
\* of leaves and its TxHash is the digest of the leaf at that index.  The
\* proofs tried are those of GenerateProof with any digest or node hash as
\* TxHash, any index up to twice the number of leaves, and the sibling list
\* or a tail of it.
C27_AcceptedProofNamesLeaf ==
    (mpc \in {"built", "proved", "verified"} /\ Len(txHashes) >= 2) =>
        \A i \in 0..(Len(txHashes) - 1) :
            LET gp == GenerateProof(tree, i)
            IN  \A k \in 1..Len(gp.Proof), h \in Replacements, x \in 0..(2 * Len(txHashes)) :
                    LET p == [gp EXCEPT !.TxHash = h,
                                        !.Index = x,
                                        !.Proof = SubSeq(gp.Proof, k, Len(gp.Proof))]
                    IN  VerifyProof(p) =>
                            /\ x < Len(txHashes)
                            /\ h = EncodeToString(DecodeString(txHashes[x + 1]).bytes)


\* C28 as stated: Set on a key that is stored only replaces that key's
\* entry, with fresh CreatedAt and AccessedAt and use count 1; every other
\* stored key and its entry stays, at capacity too.
C28_SetReplacesOnly ==
    \A n \in 1..NumTx :
        LET key == CacheKey(TxHashString(n), 0)
        IN  key \in DOMAIN proofs
                => \A after \in CacheSet(proofs, key, ProofFor(n), now) :
                      /\ after[key] = CachedProof(ProofFor(n), now)
                      /\ DOMAIN after = DOMAIN proofs
                      /\ \A k \in DOMAIN proofs \ {key} : after[k] = proofs[k]

\* C28, amended: Set on a key that is stored gives the key a fresh entry;
\* below capacity every other stored key and its entry stays; at capacity
\* one entry of minimal AccessedAt is evicted first, the key's own or
\* another key's, and every key but the evicted and the set one stays.
C28_SetReplacesAndMayEvict ==
    \A n \in 1..NumTx :
        LET key == CacheKey(TxHashString(n), 0)
        IN  key \in DOMAIN proofs
                => \A after \in CacheSet(proofs, key, ProofFor(n), now) :
                      /\ after[key] = CachedProof(ProofFor(n), now)
                      /\ \A k \in DOMAIN after \ {key} : after[k] = proofs[k]
                      /\ IF Cardinality(DOMAIN proofs) < MaxCacheSize
                         THEN DOMAIN after = DOMAIN proofs
                         ELSE \E old \in DOMAIN proofs :
                                 /\ \A j \in DOMAIN proofs :
                                       proofs[old].AccessedAt <= proofs[j].AccessedAt
                                 /\ DOMAIN after = (DOMAIN proofs \ {old}) \cup {key}

\* a full cache with a stored key that has been hit and another key accessed
\* less recently: a Set of the first key evicts the second
C28_Witness ==
    /\ Cardinality(DOMAIN proofs) = MaxCacheSize
    /\ \E a, b \in DOMAIN proofs :
          /\ proofs[b].AccessedAt < proofs[a].AccessedAt
          /\ proofs[a].UseCount >= 2
          /\ \A after \in CacheSet(proofs, a, proofs[a].Proof, now) : b \notin DOMAIN after

\* C29 as stated: Set never evicts an unexpired entry while the map holds an
\* entry whose age exceeds the expiry: at capacity the entry evicted is an
\* expired one whenever one exists.
C29_EvictsExpiredFirst ==
    (AtCapacity(proofs) /\ \E e \in DOMAIN proofs : Expired(proofs[e], now))
        => \A kept \in evictOldest(proofs) :
              \A old \in DOMAIN proofs \ DOMAIN kept : Expired(proofs[old], now)

\* C29, amended: at capacity Set evicts by AccessedAt alone: the entry
\* evicted is an expired one when an expired entry was accessed before every
\* unexpired one, and an unexpired one, with expired entries left in the
\* map, when an unexpired entry was accessed before every expired one.
C29_EvictsByAccessAlone ==
    LET expired == {k \in DOMAIN proofs : Expired(proofs[k], now)}
        live    == DOMAIN proofs \ expired
    IN  AtCapacity(proofs)
            => \A kept \in evictOldest(proofs) :
                  \A old \in DOMAIN proofs \ DOMAIN kept :
                     /\ DOMAIN kept = DOMAIN proofs \ {old}
                     /\ (\E e \in expired :
                            \A l \in live : proofs[e].AccessedAt < proofs[l].AccessedAt)
                           => old \in expired
                     /\ (\E l \in live :
                            \A e \in expired : proofs[l].AccessedAt < proofs[e].AccessedAt)
                           => old \in live

\* a full cache with an expired entry that was accessed after an unexpired
\* one: the next Set evicts the unexpired entry
C29_Witness ==
    /\ AtCapacity(proofs)
    /\ \E e, l \in DOMAIN proofs :
          /\ Expired(proofs[e], now)
          /\ ~Expired(proofs[l], now)
          /\ proofs[l].AccessedAt < proofs[e].AccessedAt
          /\ \A kept \in evictOldest(proofs) : l \notin DOMAIN kept


\* C30: under any interleaving of sendMessage, BroadcastToTopic,
\* BroadcastToAll and unregistration, a client's send channel is closed at
\* most once and nothing is sent on it after it has been closed, a full send
\* buffer included.
C30_SendChannelClosedOnce ==
    /\ \A c \in DOMAIN wsCloses : wsCloses[c] <= 1
    /\ wsPanic # "send on closed channel"

====
